---- MODULE Spec2Model ----
(***************************************************************************)
(* Model of src/jpeg_parser_phase1_marker_parsing.c.                       *)
(*                                                                         *)
(* The file holds one function, main(argc, argv): two printf calls and a   *)
(* return 0.  The calls to the later phases exist only inside comments.    *)
(* Two executions of the program are modelled side by side, each with its  *)
(* own argv and its own input byte stream, so that statements comparing    *)
(* two runs can be checked.                                                *)
(***************************************************************************)
EXTENDS Integers, Sequences, FiniteSets, TLC

\* ---- bounds of the model ------------------------------------------------
MaxArgc == 1
MaxStreamLen == 2

\* ---- inputs the environment may hand to a run ---------------------------
Runs == {1, 2}
ArgStrings == {"in.jpg"}
\* 0xFF marker prefix, 0xD8 SOI, 0xC2 progressive SOF, 0xC0 baseline SOF
StreamBytes == {255, 216, 194, 192}

RECURSIVE SeqsUpTo(_, _)
SeqsUpTo(S, n) ==
    IF n = 0 THEN {<<>>}
    ELSE LET shorter == SeqsUpTo(S, n - 1)
         IN  shorter \cup {Append(s, x) : s \in {t \in shorter : Len(t) = n - 1}, x \in S}

ArgVectors == SeqsUpTo(ArgStrings, MaxArgc)
Streams == SeqsUpTo(StreamBytes, MaxStreamLen)

\* ---- the program ---------------------------------------------------------
VARIABLES
    argv,    \* argv[r]: the argument vector of run r (argc is its length)
    stream,  \* stream[r]: the bytes available to run r on its input
    pc,      \* pc[r]: the statement of main that run r executes next
    out,     \* out[r]: the lines run r has handed to printf, in order
    ret,     \* ret[r]: <<>> while main runs, <<v>> once it returned v
    nread,   \* nread[r]: number of bytes of stream[r] the run has consumed
    calls    \* calls[r]: the phase functions run r has invoked, in order

vars == <<argv, stream, pc, out, ret, nread, calls>>

argc(r) == Len(argv[r])

Line1 == "JPEG Parser Phase 1: Marker Parsing - Initializing"
Line2 == "JPEG Parser Execution Complete (Placeholder)"

Init ==
    /\ argv \in [Runs -> ArgVectors]
    /\ stream \in [Runs -> Streams]
    /\ pc = [r \in Runs |-> "L9"]
    /\ out = [r \in Runs |-> <<>>]
    /\ ret = [r \in Runs |-> <<>>]
    /\ nread = [r \in Runs |-> 0]
    /\ calls = [r \in Runs |-> <<>>]

\* line 9: printf("JPEG Parser Phase 1: Marker Parsing - Initializing\n");
Printf1(r) ==
    /\ pc[r] = "L9"
    /\ out' = [out EXCEPT ![r] = Append(@, Line1)]
    /\ pc' = [pc EXCEPT ![r] = "L14"]
    /\ UNCHANGED <<argv, stream, ret, nread, calls>>

\* A parser that does look at its input: checks the first two bytes for SOI
\* and reports the result instead of the fixed completion line.
Printf2Parsing(r) ==
    /\ pc[r] = "L14"
    /\ nread' = [nread EXCEPT ![r] = IF Len(stream[r]) < 2 THEN Len(stream[r]) ELSE 2]
    /\ out' = [out EXCEPT ![r] =
                 Append(@, IF Len(stream[r]) >= 2 /\ stream[r][1] = 255 /\ stream[r][2] = 216
                           THEN Line2 ELSE "FormatError: missing SOI")]
    /\ pc' = [pc EXCEPT ![r] = "L15"]
    /\ UNCHANGED <<argv, stream, ret, calls>>

\* lines 10-14: the phase calls are comments; then
\* printf("JPEG Parser Execution Complete (Placeholder)\n");
Printf2(r) ==
    /\ pc[r] = "L14"
    /\ out' = [out EXCEPT ![r] = Append(@, Line2)]
    /\ pc' = [pc EXCEPT ![r] = "L15"]
    /\ UNCHANGED <<argv, stream, ret, nread, calls>>

\* A main that returns its argument count instead of 0.
ReturnArgc(r) ==
    /\ pc[r] = "L15"
    /\ ret' = [ret EXCEPT ![r] = <<argc(r)>>]
    /\ pc' = [pc EXCEPT ![r] = "done"]
    /\ UNCHANGED <<argv, stream, out, nread, calls>>

\* line 15: return 0;
Return0(r) ==
    /\ pc[r] = "L15"
    /\ ret' = [ret EXCEPT ![r] = <<0>>]
    /\ pc' = [pc EXCEPT ![r] = "done"]
    /\ UNCHANGED <<argv, stream, out, nread, calls>>

main(r) == Printf1(r) \/ Printf2(r) \/ Return0(r)

Next == \E r \in Runs : main(r)

Spec == Init /\ [][Next]_vars

\* main is straight-line code: every started run executes each statement.
FairSpec == Spec /\ \A r \in Runs : WF_vars(main(r))

\* ---- what a run has done, as seen by its caller -------------------------
Done(r) == pc[r] = "done"

\* the run ended in an error of some kind: a non-zero exit status and no
\* completion line
Failed(r) == Done(r) /\ ret[r] # <<0>> /\ \A i \in 1..Len(out[r]) : out[r][i] # Line2

IsPrefix(s, t) == Len(s) <= Len(t) /\ \A i \in 1..Len(s) : s[i] = t[i]

\* the stream opens with the SOI marker 0xFF 0xD8
StartsWithSOI(s) == Len(s) >= 2 /\ s[1] = 255 /\ s[2] = 216

\* the stream contains the marker 0xFF m
ContainsMarker(s, m) == \E i \in 1..(Len(s) - 1) : s[i] = 255 /\ s[i + 1] = m

\* ---- C1 -------------------------------------------------------------------
\* C1: whatever argc and argv are, every run emits exactly the two status
\* lines, Line1 then Line2, and then terminates returning 0: the output is at
\* all times a prefix of <<Line1, Line2>> and the second line is out before
\* main returns, the only exit status ever produced is 0, a finished run has
\* emitted both lines, and every run does finish.
C1_TwoLinesThenReturn0 ==
    /\ [](\A r \in Runs :
            /\ IsPrefix(out[r], <<Line1, Line2>>)
            /\ ret[r] \in {<<>>, <<0>>}
            /\ (Done(r) <=> ret[r] # <<>>)
            /\ (Done(r) => out[r] = <<Line1, Line2>>))
    /\ \A r \in Runs : <>[](Done(r) /\ out[r] = <<Line1, Line2>> /\ ret[r] = <<0>>)

\* a run started with a non-empty argv has printed both lines and returned
C1_Witness ==
    \E r \in Runs : argc(r) > 0 /\ Done(r) /\ out[r] = <<Line1, Line2>> /\ ret[r] = <<0>>

\* ---- C2 -------------------------------------------------------------------
\* C2: a run on a stream whose first marker is not SOI ends in a failure
\* (FormatError "missing SOI"), having built no table.  Stated on what main
\* exposes: such a run never ends successfully, it ends failed.
C2_MissingSOIFails ==
    \A r \in Runs : (Done(r) /\ ~StartsWithSOI(stream[r])) => Failed(r)

\* ---- C3 -------------------------------------------------------------------
\* C3: a run on a stream that contains the progressive SOF marker 0xFF 0xC2
\* ends in an error outcome (UnsupportedFeature), never in a completed run.
C3_ProgressiveSOFFails ==
    \A r \in Runs : (Done(r) /\ ContainsMarker(stream[r], 194)) => Failed(r)

\* ---- C10 ------------------------------------------------------------------
\* C10: main reads no input byte and invokes none of phase2_huffman_decode,
\* phase3_dct_reconstruction, phase4_dct_encode_and_write, and any two runs
\* that have both finished, whatever their argv and input streams, have
\* produced the same output sequence and the same exit status.
C10_InputIndependent ==
    /\ \A r \in Runs : nread[r] = 0 /\ calls[r] = <<>>
    /\ \A r1, r2 \in Runs :
          (Done(r1) /\ Done(r2)) => (out[r1] = out[r2] /\ ret[r1] = ret[r2])

\* two finished runs whose argv differ and whose streams differ, one opening
\* with SOI and the other not
C10_Witness ==
    \E r1, r2 \in Runs :
        /\ Done(r1) /\ Done(r2)
        /\ argv[r1] # argv[r2]
        /\ StartsWithSOI(stream[r1]) /\ ~StartsWithSOI(stream[r2])

====
